---- MODULE Spec2Model ----
(***************************************************************************)
(* A model of src/detect_twins_accounts.py: the detection of "twin"        *)
(* accounts from a corpus of message records.                              *)
(*                                                                         *)
(* Text is a sequence of one-character strings, so that lower(), split()   *)
(* and translate() are computed character by character.  A dict (and a     *)
(* defaultdict, a Counter) is a sequence of [key, val] entries in          *)
(* insertion order, which is the order Python iterates it in.  A float is  *)
(* an exact fraction <<numerator, denominator>> with a positive            *)
(* denominator.                                                            *)
(*                                                                         *)
(* There is one specification per entry point of the module:               *)
(*   SpecDup      create_dict, find_same_messages, find_all_combinations   *)
(*   SpecFreq     crete_freq_dict                                          *)
(*   SpecScore    analyse_frequency_dicts                                  *)
(*   SpecCombine  combine_results                                          *)
(*   SpecMain     find_twins_accounts, the script's entry point            *)
(***************************************************************************)
EXTENDS Integers, Sequences, FiniteSets, TLC

VARIABLES
    pc,                 \* the position of the running function
    data_mes,           \* the records (lines of the corpus) read so far
    words_more_than,    \* create_dict's parameter
    same_mes,           \* create_dict's groups: lowercased message -> authors
    large_same_mes,     \* find_same_messages' result
    all_combinations,   \* find_all_combinations' result
    freq_dict,          \* crete_freq_dict's freq: author -> Counter
    top_k,              \* analyse_frequency_dicts' parameters
    threshold,
    min_words,
    pair_idx,           \* pairs of itertools.combinations already analysed
    loc,                \* the locals of the last iteration of the scorer's loop
    suspicious_accounts,\* analyse_frequency_dicts' suspicious list
    twins_result,       \* combine_results' result
    sys                 \* the process: argv, the file, the error raised

vars == <<pc, data_mes, words_more_than, same_mes, large_same_mes,
          all_combinations, freq_dict, top_k, threshold, min_words, pair_idx,
          loc, suspicious_accounts, twins_result, sys>>

----------------------------------------------------------------------------
(* Bounds of the model. *)

\* The longest corpus.
MaxRecords == 3
\* The most words in one message of the duplicate branch's corpus.
MaxMsgWords == 3
\* The largest words_more_than create_dict is called with.
MaxThreshold == 2
\* The longest corpus and the most tokens in one message of the frequency
\* modeler's corpus.
MaxFreqRecords == 2
MaxFreqTokens == 2
\* The largest count of one word in a profile given to the scorer.
MaxCount == 2
\* The largest top_k and min_words the scorer is called with (besides the
\* pipeline's).
MaxTopK == 2
MaxMinWords == 3
\* The longest list of pairs given to combine_results.
MaxPairs == 2

\* Author identifiers (any hashable value in the code; integers sort).
Authors == {1, 2}
CombineAuthors == {1, 2, 3}

----------------------------------------------------------------------------
(* Sequences. *)

Range(s) == {s[k] : k \in DOMAIN s}

InSeq(x, s) == \E k \in DOMAIN s : s[k] = x

SeqsUpTo(S, n) == UNION {[1..k -> S] : k \in 0..n}

RECURSIVE Concat(_)
Concat(ss) == IF ss = <<>> THEN <<>> ELSE Head(ss) \o Concat(Tail(ss))

RECURSIVE SumSeq(_)
SumSeq(s) == IF s = <<>> THEN 0 ELSE Head(s) + SumSeq(Tail(s))

\* The orders a Python list built from the set S can have.
ListsOf(S) ==
    {s \in [1..Cardinality(S) -> S] : \A x \in S : \E k \in DOMAIN s : s[k] = x}

----------------------------------------------------------------------------
(* Text: str.lower, str.split, str.translate, string.punctuation. *)

UpperCase == <<"A","B","C","D","E","F","G","H","I","J","K","L","M",
               "N","O","P","Q","R","S","T","U","V","W","X","Y","Z">>
LowerCase == <<"a","b","c","d","e","f","g","h","i","j","k","l","m",
               "n","o","p","q","r","s","t","u","v","w","x","y","z">>

Lower(c) ==
    IF \E k \in DOMAIN UpperCase : UpperCase[k] = c
    THEN LowerCase[CHOOSE k \in DOMAIN UpperCase : UpperCase[k] = c]
    ELSE c

lower(s) == [k \in DOMAIN s |-> Lower(s[k])]

Whitespace == {" ", "\t", "\n", "\r"}

\* string.punctuation, 32 characters.  The grave accent cannot be written
\* in a string of this language and stands here under its name.
punctuation ==
    {"!", "\"", "#", "$", "%", "&", "'", "(", ")", "*", "+", ",", "-", ".",
     "/", ":", ";", "<", "=", ">", "?", "@", "[", "\\", "]", "^", "_", "GRAVE",
     "{", "|", "}", "~"}

RECURSIVE SplitFrom(_, _, _, _)
SplitFrom(s, k, cur, out) ==
    IF k > Len(s)
    THEN IF cur = <<>> THEN out ELSE Append(out, cur)
    ELSE IF s[k] \in Whitespace
         THEN SplitFrom(s, k + 1, <<>>,
                        IF cur = <<>> THEN out ELSE Append(out, cur))
         ELSE SplitFrom(s, k + 1, Append(cur, s[k]), out)

\* s.split(): the maximal runs of non-whitespace characters.
split(s) == SplitFrom(s, 1, <<>>, <<>>)

\* s.translate(...): every character of string.punctuation deleted.
translate(s) == SelectSeq(s, LAMBDA c : c \notin punctuation)

RECURSIVE Join(_)
Join(ws) ==
    IF ws = <<>> THEN <<>>
    ELSE IF Len(ws) = 1 THEN ws[1]
    ELSE ws[1] \o <<" ">> \o Join(Tail(ws))

----------------------------------------------------------------------------
(* dict, defaultdict(list), Counter: entries in insertion order. *)

Keys(d) == [k \in DOMAIN d |-> d[k].key]

HasKey(d, key) == \E k \in DOMAIN d : d[k].key = key

Get(d, key) == d[CHOOSE k \in DOMAIN d : d[k].key = key].val

Put(d, key, val) ==
    IF HasKey(d, key)
    THEN [k \in DOMAIN d |-> IF d[k].key = key THEN [key |-> key, val |-> val]
                             ELSE d[k]]
    ELSE Append(d, [key |-> key, val |-> val])

\* list(itertools.combinations(s, 2)): positions i < j, in lexicographic order.
RECURSIVE combinations(_)
combinations(s) ==
    IF Len(s) < 2 THEN <<>>
    ELSE [k \in 1..(Len(s) - 1) |-> <<s[1], s[k + 1]>>] \o combinations(Tail(s))

----------------------------------------------------------------------------
(* The corpus of the duplicate branch: records {author_id, message}. *)

DupHeads == {<<"H", "i">>, <<"h", "i">>}

\* A message of n words: a head word, then n - 1 times the word "x".
DupMessage(h, n) == Join(<<h>> \o [k \in 1..(n - 1) |-> <<"x">>])

\* The empty message, a blank one, and the messages of 1..MaxMsgWords words.
DupMessages ==
    {<<>>, <<" ">>} \cup {DupMessage(h, n) : h \in DupHeads, n \in 1..MaxMsgWords}

DupRecords == [author_id : Authors, message : DupMessages]

----------------------------------------------------------------------------
(* create_dict, find_same_messages, find_all_combinations. *)

\* The value the pipeline passes as words_more_than.
PipelineWordsMoreThan == 2

\* create_dict's default for words_more_than.
DefaultWordsMoreThan == 1

\* groups[message] of a defaultdict(list): reading a missing key inserts it.
Touch(groups, message) ==
    IF HasKey(groups, message) THEN groups ELSE Put(groups, message, <<>>)

\* The condition under which create_dict appends the author to the group.
ShouldAppendAlways(authors, author_id, message, more_than) ==
    Len(split(message)) > more_than

ShouldAppendAtLeast(authors, author_id, message, more_than) ==
    /\ ~InSeq(author_id, authors)
    /\ Len(split(message)) >= more_than

ShouldAppend(authors, author_id, message, more_than) ==
    /\ ~InSeq(author_id, authors)
    /\ Len(split(message)) > more_than

\* One iteration of create_dict's loop.
create_dict_line(groups, line, more_than) ==
    LET message == lower(line.message)
        touched == Touch(groups, message)
        authors == Get(touched, message)
    IN  IF ShouldAppend(authors, line.author_id, message, more_than)
        THEN Put(touched, message, Append(authors, line.author_id))
        ELSE touched

RECURSIVE SameMessagesFrom(_, _, _)
SameMessagesFrom(same_messages, k, more_one_author) ==
    IF k > Len(same_messages) THEN more_one_author
    ELSE LET accounts == same_messages[k].val
         IN  SameMessagesFrom(same_messages, k + 1,
                 IF Len(accounts) > 1 /\ ~InSeq(accounts, more_one_author)
                 THEN Append(more_one_author, accounts)
                 ELSE more_one_author)

find_same_messages(same_messages) == SameMessagesFrom(same_messages, 1, <<>>)

find_all_combinations(large) ==
    Concat([k \in DOMAIN large |-> combinations(large[k])])

\* What the variables of the other entry points hold while one runs.
IdleDup ==
    /\ words_more_than = 0
    /\ same_mes = <<>>
    /\ large_same_mes = <<>>
    /\ all_combinations = <<>>

IdleFreq == freq_dict = <<>>

IdleScore ==
    /\ top_k = 0
    /\ threshold = <<>>
    /\ min_words = 0
    /\ pair_idx = 0
    /\ loc = <<>>
    /\ suspicious_accounts = <<>>

IdleMain == sys = <<>>

InitDup ==
    /\ pc = "create_dict"
    /\ data_mes = <<>>
    /\ words_more_than \in DefaultWordsMoreThan..MaxThreshold
    /\ same_mes = <<>>
    /\ large_same_mes = <<>>
    /\ all_combinations = <<>>
    /\ twins_result = <<>>
    /\ IdleFreq /\ IdleScore /\ IdleMain

\* create_dict's loop takes the next record of message_dat.
CreateDictLine ==
    /\ pc = "create_dict"
    /\ Len(data_mes) < MaxRecords
    /\ \E line \in DupRecords :
          /\ data_mes' = Append(data_mes, line)
          /\ same_mes' = create_dict_line(same_mes, line, words_more_than)
    /\ UNCHANGED <<pc, words_more_than, large_same_mes, all_combinations,
                   freq_dict, top_k, threshold, min_words, pair_idx, loc,
                   suspicious_accounts, twins_result, sys>>

\* message_dat is exhausted: create_dict returns groups.
CreateDictReturn ==
    /\ pc = "create_dict"
    /\ pc' = "find_same_messages"
    /\ UNCHANGED <<data_mes, words_more_than, same_mes, large_same_mes,
                   all_combinations, freq_dict, top_k, threshold, min_words,
                   pair_idx, loc, suspicious_accounts, twins_result, sys>>

FindSameMessages ==
    /\ pc = "find_same_messages"
    /\ large_same_mes' = find_same_messages(same_mes)
    /\ pc' = "find_all_combinations"
    /\ UNCHANGED <<data_mes, words_more_than, same_mes, all_combinations,
                   freq_dict, top_k, threshold, min_words, pair_idx, loc,
                   suspicious_accounts, twins_result, sys>>

FindAllCombinations ==
    /\ pc = "find_all_combinations"
    /\ all_combinations' = find_all_combinations(large_same_mes)
    /\ pc' = "dup_done"
    /\ UNCHANGED <<data_mes, words_more_than, same_mes, large_same_mes,
                   freq_dict, top_k, threshold, min_words, pair_idx, loc,
                   suspicious_accounts, twins_result, sys>>

NextDup ==
    \/ CreateDictLine
    \/ CreateDictReturn
    \/ FindSameMessages
    \/ FindAllCombinations

SpecDup == InitDup /\ [][NextDup]_vars

----------------------------------------------------------------------------
(* crete_freq_dict. *)

\* The pipeline's stoplist.
common_words ==
    << <<"+", "1">>, <<"d", "o", "n", "e">>, <<"t", "h", "a", "n", "k", "s">>,
       <<"h", "i">>, <<"t", "h", "a", "n", "k">>, <<":", "-", ")">>,
       <<"o", "k">>, <<"p", "l", "e", "a", "s", "e">>,
       <<"l", "o", "o", "k", "s">>, <<"g", "o", "o", "d">>,
       <<"n", "i", "c", "e">>, <<"s", "u", "r", "e">> >>

\* The tokens the messages of the frequency modeler's corpus are made of.
FreqTokens ==
    {<<"+", "1">>, <<"o", "k">>, <<"O", "k", "!">>, <<"!", "!">>,
     <<"c", "a", "t">>}

FreqMessages == {Join(ws) : ws \in SeqsUpTo(FreqTokens, MaxFreqTokens)}

FreqRecords == [author_id : Authors, message : FreqMessages]

\* Counter.update([word])
CounterUpdate(counter, word) ==
    Put(counter, word, IF HasKey(counter, word) THEN Get(counter, word) + 1 ELSE 1)

\* The inner loop of crete_freq_dict over the words of one message.
RECURSIVE CountWords(_, _, _)
CountWords(counter, words, common) ==
    IF words = <<>> THEN counter
    ELSE CountWords(IF Head(words) = <<>> \/ InSeq(Head(words), common)
                    THEN counter
                    ELSE CounterUpdate(counter, Head(words)),
                    Tail(words), common)

\* One iteration of crete_freq_dict's outer loop.
crete_freq_dict_line(freq, line, common) ==
    LET created == IF HasKey(freq, line.author_id) THEN freq
                   ELSE Put(freq, line.author_id, <<>>)
        message == translate(line.message)
    IN  Put(created, line.author_id,
            CountWords(Get(created, line.author_id), split(lower(message)),
                       common))

InitFreq ==
    /\ pc = "crete_freq_dict"
    /\ data_mes = <<>>
    /\ freq_dict = <<>>
    /\ twins_result = <<>>
    /\ IdleDup /\ IdleScore /\ IdleMain

\* crete_freq_dict's loop takes the next record of data.
CreteFreqDictLine ==
    /\ pc = "crete_freq_dict"
    /\ Len(data_mes) < MaxFreqRecords
    /\ \E line \in FreqRecords :
          /\ data_mes' = Append(data_mes, line)
          /\ freq_dict' = crete_freq_dict_line(freq_dict, line, common_words)
    /\ UNCHANGED <<pc, words_more_than, same_mes, large_same_mes,
                   all_combinations, top_k, threshold, min_words, pair_idx,
                   loc, suspicious_accounts, twins_result, sys>>

\* data is exhausted: crete_freq_dict returns freq.
CreteFreqDictReturn ==
    /\ pc = "crete_freq_dict"
    /\ pc' = "freq_done"
    /\ UNCHANGED <<data_mes, words_more_than, same_mes, large_same_mes,
                   all_combinations, freq_dict, top_k, threshold, min_words,
                   pair_idx, loc, suspicious_accounts, twins_result, sys>>

NextFreq ==
    \/ CreteFreqDictLine
    \/ CreteFreqDictReturn

SpecFreq == InitFreq /\ [][NextFreq]_vars

----------------------------------------------------------------------------
(* Floats, as exact fractions <<numerator, denominator>>. *)

RMul(x, y) == <<x[1] * y[1], x[2] * y[2]>>

\* 1 - x
ROneMinus(x) == <<x[2] - x[1], x[2]>>

RGeq(x, y) == x[1] * y[2] >= y[1] * x[2]

RGt(x, y) == x[1] * y[2] > y[1] * x[2]

REq(x, y) == x[1] * y[2] = y[1] * x[2]

Min(a, b) == IF a <= b THEN a ELSE b

Max(a, b) == IF a >= b THEN a ELSE b

----------------------------------------------------------------------------
(* analyse_frequency_dicts. *)

\* The parameters the pipeline passes to analyse_frequency_dicts.
PipelineTopK == 10
PipelineThreshold == <<7, 10>>
PipelineMinWords == 3

\* analyse_frequency_dicts' default threshold, 0.5.
DefaultThreshold == <<1, 2>>

\* sum(counter.values())
TotalCount(counter) == SumSeq([k \in DOMAIN counter |-> counter[k].val])

\* The entries before entry k in the order of most_common: a larger count
\* first, and among equal counts the one inserted first.
Before(counter, k) ==
    {j \in DOMAIN counter :
        \/ counter[j].val > counter[k].val
        \/ counter[j].val = counter[k].val /\ j < k}

\* Counter.most_common(n): the n first entries of that order (none for n <= 0).
most_common(counter, n) ==
    [r \in 1..Min(Max(n, 0), Len(counter)) |->
        counter[CHOOSE k \in DOMAIN counter :
                    Cardinality(Before(counter, k)) = r - 1]]

\* set([word for word, count in counter.most_common(k)])
top_words(counter, k) == {e.key : e \in Range(most_common(counter, k))}

\* The pair is skipped when the two top-K sets share no word.
SkipPairNever(common_words_) == FALSE

SkipPair(common_words_) == Cardinality(common_words_) = 0

\* adjusted_threshold
AdjustedThresholdMax(threshold_, min_words_, words1_count, words2_count) ==
    IF words1_count < min_words_ \/ words2_count < min_words_
    THEN RMul(threshold_,
              ROneMinus(<<min_words_ - Max(words1_count, words2_count),
                          min_words_>>))
    ELSE threshold_

AdjustedThreshold(threshold_, min_words_, words1_count, words2_count) ==
    IF words1_count < min_words_ \/ words2_count < min_words_
    THEN RMul(threshold_,
              ROneMinus(<<min_words_ - Min(words1_count, words2_count),
                          min_words_>>))
    ELSE threshold_

\* len(common_words) / top_k; the legacy find_suspicious divides by the
\* longer of the two top-word lists instead.
OverlapRatioMaxLen(common_words_, top_k_, top_words1, top_words2) ==
    <<Cardinality(common_words_),
      Max(Cardinality(top_words1), Cardinality(top_words2))>>

OverlapRatio(common_words_, top_k_, top_words1, top_words2) ==
    <<Cardinality(common_words_), top_k_>>

\* The values `ratio >= adjusted_threshold` can have.  The unadjusted
\* threshold is the float given and the ratio one correctly rounded
\* division, so the comparison is that of the exact values.  The adjusted
\* threshold is rounded three times: where its exact value equals the ratio
\* the float may fall on either side of it (1.0 * (1 - (3 - 1) / 3) is
\* 0.33333333333333337 > 1 / 3, while 0.5 * (1 - (2 - 1) / 2) is 0.25).
FlagOutcomesStrict(ratio, adjusted_threshold, was_adjusted) ==
    {RGt(ratio, adjusted_threshold)}

FlagOutcomes(ratio, adjusted_threshold, was_adjusted) ==
    IF was_adjusted /\ REq(ratio, adjusted_threshold)
    THEN {TRUE, FALSE}
    ELSE {RGeq(ratio, adjusted_threshold)}

\* The profiles given to the scorer.
ScoreWords == {<<"a">>, <<"b">>}

PipelineWords ==
    << <<"a">>, <<"b">>, <<"c">>, <<"d">>, <<"e">>, <<"f">>, <<"g">> >>

ScoreThresholds == {<<0, 1>>, DefaultThreshold, PipelineThreshold, <<1, 1>>}

\* Every Counter over the words W with counts up to c, in every insertion
\* order.
Counters(W, c) ==
    {counter \in SeqsUpTo([key : W, val : 1..c], Cardinality(W)) :
        \A i, j \in DOMAIN counter :
            i # j => counter[i].key # counter[j].key}

\* The Counter of the words of the sequence ws that are in W, each c times.
CounterOf(ws, W, c) ==
    LET kept == SelectSeq(ws, LAMBDA w : w \in W)
    IN  [k \in DOMAIN kept |-> [key |-> kept[k], val |-> c]]

DictOf(keys, counters) ==
    [k \in DOMAIN keys |-> [key |-> keys[k], val |-> counters[k]]]

\* Two authors, every small profile, every small parameter.
InitScoreSmall ==
    /\ \E keys \in ListsOf(Authors) :
       \E counters \in [1..2 -> Counters(ScoreWords, MaxCount)] :
          freq_dict = DictOf(keys, counters)
    /\ top_k \in 0..MaxTopK
    /\ threshold \in ScoreThresholds
    /\ min_words \in 0..MaxMinWords

\* Three authors, so three pairs.
InitScoreThree ==
    /\ \E keys \in ListsOf(CombineAuthors) :
       \E counters \in [1..3 -> Counters(ScoreWords, 1)] :
          freq_dict = DictOf(keys, counters)
    /\ top_k \in 1..MaxTopK
    /\ threshold \in {DefaultThreshold, PipelineThreshold}
    /\ min_words \in 1..MaxMinWords

\* The pipeline's parameters; the first profile holds the n first words of
\* PipelineWords, the second any of them.
InitScorePipeline ==
    /\ \E keys \in ListsOf(Authors) :
       \E n \in 0..Len(PipelineWords), W \in SUBSET Range(PipelineWords) :
       \E c1, c2 \in 1..MaxCount :
          freq_dict =
              DictOf(keys, <<CounterOf(SubSeq(PipelineWords, 1, n),
                                       Range(PipelineWords), c1),
                             CounterOf(PipelineWords, W, c2)>>)
    /\ top_k = PipelineTopK
    /\ threshold = PipelineThreshold
    /\ min_words = PipelineMinWords

InitScore ==
    /\ pc = "analyse_frequency_dicts"
    /\ data_mes = <<>>
    /\ pair_idx = 0
    /\ loc = <<>>
    /\ suspicious_accounts = <<>>
    /\ twins_result = <<>>
    /\ InitScoreSmall \/ InitScoreThree \/ InitScorePipeline
    /\ IdleDup /\ IdleMain

\* itertools.combinations(data_dict.keys(), 2)
AccountPairs == combinations(Keys(freq_dict))

\* One iteration of analyse_frequency_dicts' loop.
AnalysePair ==
    /\ pc = "analyse_frequency_dicts"
    /\ pair_idx < Len(AccountPairs)
    /\ LET account1 == AccountPairs[pair_idx + 1][1]
           account2 == AccountPairs[pair_idx + 1][2]
           top_words1 == top_words(Get(freq_dict, account1), top_k)
           top_words2 == top_words(Get(freq_dict, account2), top_k)
           common_words_ == top_words1 \cap top_words2
           words1_count == TotalCount(Get(freq_dict, account1))
           words2_count == TotalCount(Get(freq_dict, account2))
           adjusted_threshold ==
               AdjustedThreshold(threshold, min_words, words1_count,
                                 words2_count)
           was_adjusted == words1_count < min_words \/ words2_count < min_words
           ratio == OverlapRatio(common_words_, top_k, top_words1, top_words2)
           locals == [account1 |-> account1, account2 |-> account2,
                      common_words |-> common_words_,
                      words1_count |-> words1_count,
                      words2_count |-> words2_count]
       IN  \/ /\ SkipPair(common_words_)
              /\ loc' = locals
                            @@ [skipped |-> TRUE, adjusted_threshold |-> <<>>,
                                flagged |-> FALSE]
              /\ UNCHANGED suspicious_accounts
           \/ /\ ~SkipPair(common_words_)
              /\ \E flagged \in FlagOutcomes(ratio, adjusted_threshold,
                                             was_adjusted) :
                    /\ loc' = locals
                                @@ [skipped |-> FALSE,
                                    adjusted_threshold |-> adjusted_threshold,
                                    flagged |-> flagged]
                    /\ suspicious_accounts' =
                          IF flagged
                          THEN Append(suspicious_accounts,
                                      <<account1, account2>>)
                          ELSE suspicious_accounts
    /\ pair_idx' = pair_idx + 1
    /\ UNCHANGED <<pc, data_mes, words_more_than, same_mes, large_same_mes,
                   all_combinations, freq_dict, top_k, threshold, min_words,
                   twins_result, sys>>

\* The pairs are exhausted: analyse_frequency_dicts returns suspicious.
AnalyseReturn ==
    /\ pc = "analyse_frequency_dicts"
    /\ pair_idx = Len(AccountPairs)
    /\ pc' = "score_done"
    /\ UNCHANGED <<data_mes, words_more_than, same_mes, large_same_mes,
                   all_combinations, freq_dict, top_k, threshold, min_words,
                   pair_idx, loc, suspicious_accounts, twins_result, sys>>

NextScore ==
    \/ AnalysePair
    \/ AnalyseReturn

SpecScore == InitScore /\ [][NextScore]_vars

----------------------------------------------------------------------------
(* combine_results. *)

\* tuple(i), unsorted
Unsorted(i) == i

\* tuple(sorted(i))
Canonical(i) == IF i[1] <= i[2] THEN i ELSE <<i[2], i[1]>>

\* The set comb of combine_results.
combine_results(suspicious_ac, all_comb) ==
    LET set_suspicious == {Canonical(i) : i \in Range(suspicious_ac)}
        set_comb == {Canonical(i) : i \in Range(all_comb)}
    IN  set_suspicious \cap set_comb

\* The pairs of two distinct authors, in both orders.
AuthorPairs == {i \in CombineAuthors \X CombineAuthors : i[1] # i[2]}

InitCombine ==
    /\ pc = "combine_results"
    /\ data_mes = <<>>
    /\ words_more_than = 0
    /\ same_mes = <<>>
    /\ large_same_mes = <<>>
    /\ all_combinations \in SeqsUpTo(AuthorPairs, MaxPairs)
    /\ top_k = 0
    /\ threshold = <<>>
    /\ min_words = 0
    /\ pair_idx = 0
    /\ loc = <<>>
    /\ suspicious_accounts \in SeqsUpTo(AuthorPairs, MaxPairs)
    /\ twins_result = <<>>
    /\ IdleFreq /\ IdleMain

\* combine_results returns list(comb): the set's pairs, in the set's order.
CombineResults ==
    /\ pc = "combine_results"
    /\ twins_result' \in
          ListsOf(combine_results(suspicious_accounts, all_combinations))
    /\ pc' = "combine_done"
    /\ UNCHANGED <<data_mes, words_more_than, same_mes, large_same_mes,
                   all_combinations, freq_dict, top_k, threshold, min_words,
                   pair_idx, loc, suspicious_accounts, sys>>

NextCombine == CombineResults

SpecCombine == InitCombine /\ [][NextCombine]_vars

----------------------------------------------------------------------------
(* find_twins_accounts, the entry point of the script. *)

\* load_data: the list of json.loads(line) over the lines of the file.  A
\* line of the file is written here as the record json.loads makes of it.
load_data(file) == [k \in DOMAIN file |-> file[k]]

\* The command lines: no argument, or the path of the data file.
CommandLines == {<<>>, <<"data.jsonl">>}

InitMain ==
    /\ pc = "find_twins_accounts"
    /\ data_mes = <<>>
    /\ twins_result = <<>>
    /\ \E argv \in CommandLines, file \in SeqsUpTo(DupRecords, MaxRecords) :
          sys = [argv |-> argv, file |-> file, args |-> <<>>, error |-> ""]
    /\ IdleDup /\ IdleFreq /\ IdleScore

\* parser.parse_args(): the one positional argument becomes args.file_name;
\* without it argparse exits.
ParseArgs ==
    /\ pc = "find_twins_accounts"
    /\ IF Len(sys.argv) = 1
       THEN /\ sys' = [sys EXCEPT !.args = [file_name |-> sys.argv[1]]]
            /\ pc' = "load_data"
       ELSE /\ sys' = [sys EXCEPT !.error = "SystemExit"]
            /\ pc' = "exit"
    /\ UNCHANGED <<data_mes, words_more_than, same_mes, large_same_mes,
                   all_combinations, freq_dict, top_k, threshold, min_words,
                   pair_idx, loc, suspicious_accounts, twins_result>>

\* data_mes = load_data(args.filr_name): args has no attribute filr_name, so
\* the argument's evaluation raises AttributeError, which nothing catches.
LoadData ==
    /\ pc = "load_data"
    /\ IF "filr_name" \in DOMAIN sys.args
       THEN /\ data_mes' = load_data(sys.file)
            /\ pc' = "create_dict"
            /\ UNCHANGED sys
       ELSE /\ sys' = [sys EXCEPT !.error = "AttributeError"]
            /\ pc' = "exit"
            /\ UNCHANGED data_mes
    /\ UNCHANGED <<words_more_than, same_mes, large_same_mes,
                   all_combinations, freq_dict, top_k, threshold, min_words,
                   pair_idx, loc, suspicious_accounts, twins_result>>

\* The statements after line 166 are never reached from the entry point;
\* SpecDup, SpecFreq, SpecScore and SpecCombine run them on their own.
NextMain ==
    \/ ParseArgs
    \/ LoadData

SpecMain == InitMain /\ [][NextMain]_vars

----------------------------------------------------------------------------
(* The properties checked. *)

\* The pair of a and b, in either order, is in the list.
FlaggedBy(a, b, list) == InSeq(<<a, b>>, list) \/ InSeq(<<b, a>>, list)

\* C1 (SpecCombine): combine_results returns exactly the sorted pairs that
\* occur, in some order, in both of its lists, and each of them once.
C1_CombineIsIntersection ==
    pc = "combine_done" =>
        /\ Range(twins_result) =
              {i \in CombineAuthors \X CombineAuthors :
                  /\ i[1] < i[2]
                  /\ FlaggedBy(i[1], i[2], suspicious_accounts)
                  /\ FlaggedBy(i[1], i[2], all_combinations)}
        /\ \A j, k \in DOMAIN twins_result :
              j # k => twins_result[j] # twins_result[k]

\* A pair found as (a, b) by one branch and as (b, a) by the other is
\* returned, and a pair only one branch has found is not.
C1_Witness ==
    /\ pc = "combine_done"
    /\ \E a, b, c \in CombineAuthors :
          /\ a < b
          /\ InSeq(<<a, b>>, suspicious_accounts)
          /\ ~InSeq(<<a, b>>, all_combinations)
          /\ InSeq(<<b, a>>, all_combinations)
          /\ InSeq(<<a, b>>, twins_result)
          /\ FlaggedBy(a, c, suspicious_accounts)
          /\ ~FlaggedBy(a, c, all_combinations)
          /\ ~InSeq(Canonical(<<a, c>>), twins_result)

\* Records i and j are by two authors and hold, but for the case of the
\* letters, the same message of at least n words.
SameMessageTwoAuthors(i, j, n) ==
    /\ data_mes[i].author_id # data_mes[j].author_id
    /\ lower(data_mes[i].message) = lower(data_mes[j].message)
    /\ Len(split(data_mes[i].message)) >= n
    /\ Len(split(data_mes[j].message)) >= n

\* C2 (SpecDup): called as the pipeline calls it, the duplicate branch puts
\* two authors of the same message of 2 or more words (but for the case) in
\* one Message Group, and their pair in the duplicate-message Suspicion Set.
C2_TwoWordDuplicatesPaired ==
    (pc = "dup_done" /\ words_more_than = PipelineWordsMoreThan) =>
        \A i, j \in DOMAIN data_mes :
            SameMessageTwoAuthors(i, j, 2) =>
                LET group == Get(same_mes, lower(data_mes[i].message))
                IN  /\ InSeq(data_mes[i].author_id, group)
                    /\ InSeq(data_mes[j].author_id, group)
                    /\ FlaggedBy(data_mes[i].author_id, data_mes[j].author_id,
                                 all_combinations)

\* C3 (SpecDup): with a threshold of 1 or more, the group of a message that
\* is empty or has one word has no author, and every pair of the
\* duplicate-message Suspicion Set comes from a group of 2 or more words.
C3_ShortMessagesNeverGrouped ==
    words_more_than >= 1 =>
        /\ \A i \in DOMAIN data_mes :
              Len(split(data_mes[i].message)) <= 1 =>
                  Get(same_mes, lower(data_mes[i].message)) = <<>>
        /\ \A k \in DOMAIN all_combinations :
              \E g \in DOMAIN same_mes :
                  /\ Len(split(same_mes[g].key)) >= 2
                  /\ InSeq(all_combinations[k][1], same_mes[g].val)
                  /\ InSeq(all_combinations[k][2], same_mes[g].val)

\* Two authors have sent the same one-word message, and the branch has ended
\* with no author in its group and no pair.
C3_Witness ==
    /\ pc = "dup_done"
    /\ words_more_than >= 1
    /\ \E i, j \in DOMAIN data_mes :
          /\ SameMessageTwoAuthors(i, j, 1)
          /\ Len(split(data_mes[i].message)) = 1
          /\ data_mes[i].message # data_mes[j].message
          /\ HasKey(same_mes, lower(data_mes[i].message))
          /\ Get(same_mes, lower(data_mes[i].message)) = <<>>
    /\ all_combinations = <<>>

\* The tokens of the messages of an author, as written.
RECURSIVE TokensOf(_, _)
TokensOf(author_id, records) ==
    IF records = <<>> THEN <<>>
    ELSE (IF Head(records).author_id = author_id
          THEN split(Head(records).message) ELSE <<>>)
         \o TokensOf(author_id, Tail(records))

Stoplisted(token) == InSeq(lower(token), common_words)

PunctuationOnly(token) == \A k \in DOMAIN token : token[k] \in punctuation

\* C4 (SpecFreq): a token that is a stoplisted word or only punctuation adds
\* no count to its author's profile, and the profile of an author all of
\* whose tokens are stoplisted words is empty.
C4_StoplistedNeverCounted ==
    \A k \in DOMAIN freq_dict :
        LET tokens == TokensOf(freq_dict[k].key, data_mes)
            counted == SelectSeq(tokens,
                           LAMBDA t : ~Stoplisted(t) /\ ~PunctuationOnly(t))
        IN  /\ TotalCount(freq_dict[k].val) <= Len(counted)
            /\ (\A t \in Range(tokens) : Stoplisted(t)) =>
                   freq_dict[k].val = <<>>

\* The words common to the top-K sets of the two authors of a pair.
CommonTopWords(pair) ==
    top_words(Get(freq_dict, pair[1]), top_k)
        \cap top_words(Get(freq_dict, pair[2]), top_k)

\* Both authors of the pair have at least min_words words in total.
BothHaveMinWords(pair) ==
    /\ TotalCount(Get(freq_dict, pair[1])) >= min_words
    /\ TotalCount(Get(freq_dict, pair[2])) >= min_words

\* The pair the scorer's loop has analysed last.
LastPair == <<loc.account1, loc.account2>>

Sparse == loc.words1_count < min_words \/ loc.words2_count < min_words

\* C5 (SpecScore): no flagged pair has two top-K sets without a common word,
\* and no author of a flagged pair has an empty profile.
C5_NoCommonNeverFlagged ==
    \A k \in DOMAIN suspicious_accounts :
        /\ CommonTopWords(suspicious_accounts[k]) # {}
        /\ Get(freq_dict, suspicious_accounts[k][1]) # <<>>
        /\ Get(freq_dict, suspicious_accounts[k][2]) # <<>>

\* With a threshold of 0, which every ratio reaches, a pair of two authors
\* with words but none in common has been analysed, one of them with fewer
\* than min_words words, and is not flagged.
C5_Witness ==
    /\ pc = "score_done"
    /\ pair_idx > 0
    /\ threshold[1] = 0
    /\ top_k > 0
    /\ loc.common_words = {}
    /\ loc.words1_count > 0 /\ loc.words2_count > 0
    /\ Sparse
    /\ ~InSeq(LastPair, suspicious_accounts)

\* C6 (SpecScore): a pair of authors with at least min_words words each is
\* flagged exactly when its top-K sets share at least 1 word and the number
\* of shared words divided by top_k is at least threshold.
C6_FlaggedExactlyWhen ==
    pc = "score_done" =>
        \A k \in DOMAIN AccountPairs :
            BothHaveMinWords(AccountPairs[k]) =>
                LET common == Cardinality(CommonTopWords(AccountPairs[k]))
                IN  InSeq(AccountPairs[k], suspicious_accounts)
                    <=> /\ common >= 1
                        /\ common * threshold[2] >= threshold[1] * top_k

\* The boundary: top_k = 10, threshold = 0.7, exactly 7 common words, both
\* authors with min_words words or more, and the pair is flagged.
C6_Witness ==
    /\ pc = "score_done"
    /\ pair_idx > 0
    /\ top_k = 10
    /\ threshold = <<7, 10>>
    /\ Cardinality(loc.common_words) = 7
    /\ ~Sparse
    /\ InSeq(LastPair, suspicious_accounts)

\* C7 (SpecScore): with threshold and min_words positive, the threshold
\* applied to a pair is the base threshold when both totals are at least
\* min_words, is threshold * min(count1, count2) / min_words and below the
\* base threshold when one is not, and is never above the base threshold;
\* a pair whose ratio reaches the base threshold is flagged also when a
\* total is below min_words.
C7_AdjustedThreshold ==
    (pair_idx > 0 /\ ~loc.skipped /\ threshold[1] > 0 /\ min_words > 0) =>
        LET adjusted == loc.adjusted_threshold
            least == Min(loc.words1_count, loc.words2_count)
        IN  /\ ~Sparse => adjusted = threshold
            /\ Sparse =>
                  /\ RGt(threshold, adjusted)
                  /\ REq(adjusted, RMul(threshold, <<least, min_words>>))
            /\ RGeq(threshold, adjusted)
            /\ (Sparse /\ RGeq(<<Cardinality(loc.common_words), top_k>>,
                               threshold)) =>
                  /\ loc.flagged
                  /\ InSeq(LastPair, suspicious_accounts)

\* The threshold has been lowered for a pair with two different totals, one
\* below min_words, whose ratio reaches the base threshold: it is flagged.
C7_Witness ==
    /\ pair_idx > 0
    /\ ~loc.skipped
    /\ threshold[1] > 0
    /\ min_words > 0
    /\ Sparse
    /\ loc.words1_count # loc.words2_count
    /\ RGeq(<<Cardinality(loc.common_words), top_k>>, threshold)
    /\ RGt(threshold, loc.adjusted_threshold)
    /\ InSeq(LastPair, suspicious_accounts)

\* C8 (SpecMain): run on a file of zero records, the pipeline ends without
\* an error and with an empty Twin Result Set.
C8_EmptyCorpusNoError ==
    (/\ sys.file = <<>>
     /\ Len(sys.argv) = 1
     /\ pc \notin {"find_twins_accounts", "load_data"}) =>
        /\ sys.error = ""
        /\ twins_result = <<>>
        /\ pc = "main_done"

\* C9 (SpecDup): after any prefix of the records no group lists an author
\* twice, and the two authors of every pair of find_all_combinations differ.
C9_NoAuthorTwice ==
    /\ \A g \in DOMAIN same_mes :
          \A i, j \in DOMAIN same_mes[g].val :
              i # j => same_mes[g].val[i] # same_mes[g].val[j]
    /\ \A k \in DOMAIN all_combinations :
          all_combinations[k][1] # all_combinations[k][2]

\* An author has sent one text twice, in two casings, another author has
\* sent it too: the group lists each once and gives one pair.
C9_Witness ==
    /\ pc = "dup_done"
    /\ \E i, j, k \in DOMAIN data_mes :
          /\ i < j
          /\ data_mes[i].author_id = data_mes[j].author_id
          /\ data_mes[i].message # data_mes[j].message
          /\ lower(data_mes[i].message) = lower(data_mes[j].message)
          /\ SameMessageTwoAuthors(i, k, words_more_than + 1)
          /\ Len(Get(same_mes, lower(data_mes[i].message))) = 2
    /\ Len(all_combinations) = 1

PipelineParameters ==
    /\ top_k = PipelineTopK
    /\ threshold = PipelineThreshold
    /\ min_words = PipelineMinWords

\* C10 (SpecScore): with the pipeline's parameters every flagged pair has
\* at least 7 common top-10 words and two authors of min_words words or
\* more, and the pairs flagged are those the base threshold alone flags.
C10_PipelineNeedsSevenCommon ==
    PipelineParameters =>
        /\ \A k \in DOMAIN suspicious_accounts :
              /\ Cardinality(CommonTopWords(suspicious_accounts[k])) >= 7
              /\ BothHaveMinWords(suspicious_accounts[k])
        /\ pc = "score_done" =>
              \A k \in DOMAIN AccountPairs :
                  InSeq(AccountPairs[k], suspicious_accounts)
                  <=> RGeq(<<Cardinality(CommonTopWords(AccountPairs[k])),
                             top_k>>, threshold)

\* With the pipeline's parameters a pair with a common word and an author of
\* fewer than min_words words has had its threshold lowered, and is not
\* flagged.
C10_Witness ==
    /\ PipelineParameters
    /\ pc = "score_done"
    /\ pair_idx > 0
    /\ ~loc.skipped
    /\ Sparse
    /\ RGt(threshold, loc.adjusted_threshold)
    /\ ~InSeq(LastPair, suspicious_accounts)

====
